---- MODULE Spec2Model ----
(***************************************************************************)
(* Model of reddit_persona_analyzer.py: the command line run (main), the   *)
(* content fetcher (RedditScraper), the heuristic analyzer                 *)
(* (SimplePersonaAnalyzer) and the report writer (save_persona_to_file).   *)
(*                                                                         *)
(* Python strings are sequences of one-character strings, so that `in`,    *)
(* split, strip, lower and title are computed character by character.      *)
(***************************************************************************)
EXTENDS Integers, Sequences, FiniteSets

VARIABLES
    pc,              \* where the run is: extract, scrape, fetch, loop, return, scraped, analyze, save, except, returned, exited
    profile_url,     \* args.profile_url
    username,        \* main's username
    limit,           \* scrape_user_content's limit
    content_type,    \* the sub-fetch under way: none, post, comment, done
    children,        \* len(children) of the response being iterated
    consumed,        \* how many of them the loop has taken
    fposts,          \* _fetch_content's posts
    accepted,        \* per sub-fetch, the children whose items were appended (history)
    status,          \* per sub-fetch: pending, ok, no data, or the exception its handler caught
    result,          \* per sub-fetch, the list it returned
    posts,           \* scrape_user_content's posts, then main's
    requests,        \* the GETs issued so far
    stdout,          \* the lines printed that the properties read
    persona,         \* main's persona
    analyzer_calls,  \* calls of analyze_user_persona so far
    file,            \* the output file
    raised,          \* the exception that reached main's handler, or none
    main_return,     \* what main returned
    exit_status      \* the process's exit status, -1 while it runs

vars == <<pc, profile_url, username, limit, content_type, children, consumed, fposts, accepted, status, result, posts, requests, stdout, persona, analyzer_calls, file, raised, main_return, exit_status>>

\* ------------------------------------------------------------------ bounds

\* Most children a response carries (the server may ignore the limit parameter).
MaxChildren == 3

\* Longest item list handed to the analyzer on its own.
MaxItems == 7

\* ------------------------------------------------------- program constants

\* scrape_user_content's default limit, the one main uses.
DefaultLimit == 50

\* The cap on the limit query parameter.
PageCap == 25

\* Communities that become interests, and the cap on the interests list.
TopCommunities == 5

InterestCap == 10

\* Communities kept in top_subreddits.
TopSubreddits == 10

\* Items cited under top_content.
TopCited == 5

\* ----------------------------------------------------------------- strings

Min(a, b) == IF a <= b THEN a ELSE b

\* s[i..] starts with p
StartsAt(p, s, i) == i + Len(p) - 1 <= Len(s) /\ \A k \in 1..Len(p) : s[i + k - 1] = p[k]

\* Python: p in s
In(p, s) == \E i \in 1..(Len(s) - Len(p) + 1) : StartsAt(p, s, i)

\* Python: s.find(p) + 1, for p in s
Find(p, s) == CHOOSE i \in 1..(Len(s) - Len(p) + 1) : StartsAt(p, s, i) /\ \A j \in 1..(i - 1) : ~StartsAt(p, s, j)

\* Python: s.split(sep)[1], for sep in s
SplitSecond(s, sep) ==
    LET rest == SubSeq(s, Find(sep, s) + Len(sep), Len(s))
    IN  IF In(sep, rest) THEN SubSeq(rest, 1, Find(sep, rest) - 1) ELSE rest

RECURSIVE RStrip(_, _)
\* Python: s.rstrip(c)
RStrip(s, c) == IF s # <<>> /\ s[Len(s)] = c THEN RStrip(SubSeq(s, 1, Len(s) - 1), c) ELSE s

Whitespace == {" ", "\t", "\n", "\r"}

RECURSIVE Strip(_)
\* Python: s.strip()
Strip(s) ==
    IF s = <<>> THEN s
    ELSE IF s[1] \in Whitespace THEN Strip(Tail(s))
    ELSE IF s[Len(s)] \in Whitespace THEN Strip(SubSeq(s, 1, Len(s) - 1))
    ELSE s

UpperCase == <<"A","B","C","D","E","F","G","H","I","J","K","L","M","N","O","P","Q","R","S","T","U","V","W","X","Y","Z">>

LowerCase == <<"a","b","c","d","e","f","g","h","i","j","k","l","m","n","o","p","q","r","s","t","u","v","w","x","y","z">>

IsUpper(c) == \E i \in 1..Len(UpperCase) : UpperCase[i] = c

IsLower(c) == \E i \in 1..Len(LowerCase) : LowerCase[i] = c

LowerChar(c) == IF IsUpper(c) THEN LowerCase[CHOOSE i \in 1..Len(UpperCase) : UpperCase[i] = c] ELSE c

UpperChar(c) == IF IsLower(c) THEN UpperCase[CHOOSE i \in 1..Len(LowerCase) : LowerCase[i] = c] ELSE c

\* Python: s.lower()
Lower(s) == [i \in 1..Len(s) |-> LowerChar(s[i])]

\* Python: s.title(): a letter that follows no letter is upper-cased, the others lower-cased
Title(s) == [i \in 1..Len(s) |-> IF i = 1 \/ ~(IsUpper(s[i - 1]) \/ IsLower(s[i - 1])) THEN UpperChar(s[i]) ELSE LowerChar(s[i])]

RECURSIVE Join(_, _)
\* Python: sep.join(parts)
Join(sep, parts) ==
    IF parts = <<>> THEN <<>>
    ELSE IF Len(parts) = 1 THEN parts[1]
    ELSE parts[1] \o sep \o Join(sep, Tail(parts))

\* ------------------------------------------------------------- RedditScraper

UserMarker == <<"/","u","s","e","r","/">>

UMarker == <<"/","u","/">>

\* extract_username were it to take a URL without marker as the name itself
extract_username_lenient(url) ==
    IF In(UserMarker, url) THEN [raises |-> FALSE, value |-> RStrip(SplitSecond(url, UserMarker), "/")]
    ELSE IF In(UMarker, url) THEN [raises |-> FALSE, value |-> RStrip(SplitSecond(url, UMarker), "/")]
    ELSE [raises |-> FALSE, value |-> RStrip(url, "/")]

\* What extract_username does with profile_url: the name, or the ValueError.
extract_username(url) ==
    IF In(UserMarker, url) THEN [raises |-> FALSE, value |-> RStrip(SplitSecond(url, UserMarker), "/")]
    ELSE IF In(UMarker, url) THEN [raises |-> FALSE, value |-> RStrip(SplitSecond(url, UMarker), "/")]
    ELSE [raises |-> TRUE, value |-> <<>>]

\* A Python value that is a str or None.
PyNone == [none |-> TRUE, s |-> <<>>]

PyStr(x) == [none |-> FALSE, s |-> x]

\* Python truth of a str-or-None value
Truthy(v) == ~v.none /\ v.s # <<>>

\* Python: d.get(k, default) on a JSON object d
Get(d, k, default) == IF k \in DOMAIN d THEN d[k] ELSE default

Deleted == <<"[","d","e","l","e","t","e","d","]">>

Removed == <<"[","r","e","m","o","v","e","d","]">>

BaseUrl == <<"h","t","t","p","s",":","/","/","r","e","d","d","i","t",".","c","o","m">>

\* The children a response may carry: [has_data, data], data the child's 'data' object.
GoodPost == [has_data |-> TRUE, data |-> [title |-> PyStr(<<"H","i">>), selftext |-> PyStr(<<>>), removed_by_category |-> PyNone, subreddit |-> <<"a">>, score |-> 5, permalink |-> <<"/","p","1">>]]

TextPost == [has_data |-> TRUE, data |-> [title |-> PyStr(<<" ">>), selftext |-> PyStr(<<"g","o","o","d">>), removed_by_category |-> PyNone, subreddit |-> <<>>, score |-> 12, permalink |-> <<"/","p","2">>]]

DeletedPost == [has_data |-> TRUE, data |-> [title |-> PyStr(Deleted), selftext |-> PyStr(<<"x">>), removed_by_category |-> PyNone, subreddit |-> <<"a">>, score |-> 1, permalink |-> <<"/","p","3">>]]

RemovedPost == [has_data |-> TRUE, data |-> [title |-> PyStr(<<"Y","o">>), selftext |-> PyStr(<<"x">>), removed_by_category |-> PyStr(<<"m","o","d","e","r","a","t","o","r">>), subreddit |-> <<"a">>, score |-> 1, permalink |-> <<"/","p","4">>]]

BlankPost == [has_data |-> TRUE, data |-> [title |-> PyStr(<<>>), selftext |-> PyStr(<<" ">>), removed_by_category |-> PyNone, subreddit |-> <<"a">>, score |-> 1, permalink |-> <<"/","p","5">>]]

NullPost == [has_data |-> TRUE, data |-> [title |-> PyNone, selftext |-> PyStr(<<>>), body |-> PyNone, subreddit |-> <<"a">>, score |-> 1, permalink |-> <<"/","p","6">>]]

GoodComment == [has_data |-> TRUE, data |-> [body |-> PyStr(<<"b","a","d">>), subreddit |-> <<"b">>, score |-> 2, permalink |-> <<"/","c","1">>]]

OtherComment == [has_data |-> TRUE, data |-> [body |-> PyStr(<<"o","k">>), subreddit |-> <<"a">>, score |-> 5, permalink |-> <<"/","c","2">>]]

RemovedComment == [has_data |-> TRUE, data |-> [body |-> PyStr(Removed), subreddit |-> <<"b">>, score |-> 2, permalink |-> <<"/","c","3">>]]

DeletedComment == [has_data |-> TRUE, data |-> [body |-> PyStr(Deleted), subreddit |-> <<"b">>, score |-> 2, permalink |-> <<"/","c","4">>]]

NoData == [has_data |-> FALSE, data |-> [kind |-> <<"t","1">>]]

Children == {GoodPost, TextPost, DeletedPost, RemovedPost, BlankPost, NullPost, GoodComment, OtherComment, RemovedComment, DeletedComment, NoData}

\* The test were it to know the '[deleted]' sentinel only
SkippedDeletedOnly(item_data, ctype) ==
    IF ctype = "post"
    THEN Get(item_data, "title", PyNone) = PyStr(Deleted)
    ELSE Get(item_data, "body", PyNone) = PyStr(Deleted)

\* The deleted/removed test of the loop body, for a child that has 'data'
Skipped(item_data, ctype) ==
    IF ctype = "post"
    THEN Truthy(Get(item_data, "removed_by_category", PyNone)) \/ Get(item_data, "title", PyNone) = PyStr(Deleted)
    ELSE Get(item_data, "body", PyNone) \in {PyStr(Deleted), PyStr(Removed)}

\* The RedditPost the loop body builds from a child's 'data'
RedditPost(item_data, ctype) ==
    [title |-> IF ctype = "post" THEN Get(item_data, "title", PyStr(<<>>)) ELSE PyStr(<<>>),
     content |-> IF ctype = "post" THEN Get(item_data, "selftext", PyStr(<<>>)) ELSE Get(item_data, "body", PyStr(<<>>)),
     subreddit |-> Get(item_data, "subreddit", <<>>),
     score |-> Get(item_data, "score", 0),
     created_utc |-> Get(item_data, "created_utc", 0),
     url |-> BaseUrl \o Get(item_data, "permalink", <<>>),
     post_type |-> ctype]

\* post.content.strip() or post.title.strip(): "raise" when .strip() is called on None
HasContent(post) ==
    IF post.content.none THEN "raise"
    ELSE IF Strip(post.content.s) # <<>> THEN "yes"
    ELSE IF post.title.none THEN "raise"
    ELSE IF Strip(post.title.s) # <<>> THEN "yes" ELSE "no"

\* One pass of the loop body over child: "raise", "skip" or "append"
LoopBody(child, ctype) ==
    IF ~child.has_data THEN "raise"
    ELSE IF Skipped(child.data, ctype) THEN "skip"
    ELSE IF HasContent(RedditPost(child.data, ctype)) = "raise" THEN "raise"
    ELSE IF HasContent(RedditPost(child.data, ctype)) = "yes" THEN "append" ELSE "skip"

\* The limit were scrape_user_content to hand its own limit on
SubLimitWhole(lim) == lim

\* The limit scrape_user_content hands to each sub-fetch
SubLimit(lim) == lim \div 2

\* params = {'limit': min(limit, 25)}
ParamsLimit(lim) == Min(lim, PageCap)

Say(line) == stdout' = Append(stdout, line)

\* ----------------------------------------------------- SimplePersonaAnalyzer

\* Python: seq[:n]
Take(seq, n) == SubSeq(seq, 1, Min(n, Len(seq)))

\* The insertion of a sort that is not stable: i goes before the indices of equal key
InsertDescUnstable(sorted, i, keys) ==
    LET p == Cardinality({k \in 1..Len(sorted) : keys[sorted[k]] > keys[i]})
    IN  SubSeq(sorted, 1, p) \o <<i>> \o SubSeq(sorted, p + 1, Len(sorted))

\* Where index i goes in `sorted` (indices in descending key order): after every index whose key is not smaller
InsertDesc(sorted, i, keys) ==
    LET p == Cardinality({k \in 1..Len(sorted) : keys[sorted[k]] >= keys[i]})
    IN  SubSeq(sorted, 1, p) \o <<i>> \o SubSeq(sorted, p + 1, Len(sorted))

RECURSIVE SortIndices(_, _)
\* The indices 1..n in the order sorted(..., reverse=True) puts them, keys[i] the key of the i-th element
SortIndices(keys, n) == IF n = 0 THEN <<>> ELSE InsertDesc(SortIndices(keys, n - 1), n, keys)

\* Python: sorted(seq, key=..., reverse=True), keys[i] the key of seq[i]
SortedDesc(seq, keys) == [k \in 1..Len(seq) |-> seq[SortIndices(keys, Len(seq))[k]]]

\* subreddit_counts[sub] = subreddit_counts.get(sub, 0) + 1, the dict a sequence of entries in insertion order
Incr(counts, sub) ==
    IF \E i \in 1..Len(counts) : counts[i].key = sub
    THEN [i \in 1..Len(counts) |-> IF counts[i].key = sub THEN [key |-> sub, count |-> counts[i].count + 1] ELSE counts[i]]
    ELSE Append(counts, [key |-> sub, count |-> 1])

RECURSIVE SubredditCounts(_)
\* Lines 155-158: the tally of the non-empty post.subreddit values
SubredditCounts(ps) ==
    IF ps = <<>> THEN <<>>
    ELSE LET before == SubredditCounts(SubSeq(ps, 1, Len(ps) - 1))
             last == ps[Len(ps)]
         IN  IF last.subreddit # <<>> THEN Incr(before, last.subreddit) ELSE before

\* top_subreddits were the tally left in insertion order
TopSubredditsUnsorted(counts) == Take(counts, TopSubreddits)

\* Line 161: sorted(subreddit_counts.items(), key=lambda x: x[1], reverse=True)[:10]
TopSubredditsOf(counts) == Take(SortedDesc(counts, [i \in 1..Len(counts) |-> counts[i].count]), TopSubreddits)

RECURSIVE AllContent(_)
\* Lines 164-169: the lower-cased non-empty titles and contents, in item order
AllContent(ps) ==
    IF ps = <<>> THEN <<>>
    ELSE (IF Truthy(ps[1].title) THEN <<Lower(ps[1].title.s)>> ELSE <<>>)
         \o (IF Truthy(ps[1].content) THEN <<Lower(ps[1].content.s)>> ELSE <<>>)
         \o AllContent(Tail(ps))

\* Line 171: ' '.join(all_content)
CombinedText(ps) == Join(<<" ">>, AllContent(ps))

\* interest_keywords, in the order the dict literal gives
InterestKeywords ==
    << [name |-> <<"p","r","o","g","r","a","m","m","i","n","g">>, keywords |-> {<<"c","o","d","e">>, <<"p","y","t","h","o","n">>, <<"j","a","v","a","s","c","r","i","p","t">>, <<"p","r","o","g","r","a","m","m","i","n","g">>, <<"d","e","v","e","l","o","p","e","r">>, <<"s","o","f","t","w","a","r","e">>}],
       [name |-> <<"g","a","m","i","n","g">>, keywords |-> {<<"g","a","m","e">>, <<"g","a","m","i","n","g">>, <<"p","l","a","y">>, <<"s","t","e","a","m">>, <<"x","b","o","x">>, <<"p","l","a","y","s","t","a","t","i","o","n">>}],
       [name |-> <<"t","e","c","h","n","o","l","o","g","y">>, keywords |-> {<<"t","e","c","h">>, <<"t","e","c","h","n","o","l","o","g","y">>, <<"c","o","m","p","u","t","e","r">>, <<"l","a","p","t","o","p">>, <<"p","h","o","n","e">>}],
       [name |-> <<"m","u","s","i","c">>, keywords |-> {<<"m","u","s","i","c">>, <<"s","o","n","g">>, <<"a","l","b","u","m">>, <<"a","r","t","i","s","t">>, <<"b","a","n","d">>}],
       [name |-> <<"s","p","o","r","t","s">>, keywords |-> {<<"f","o","o","t","b","a","l","l">>, <<"b","a","s","k","e","t","b","a","l","l">>, <<"s","o","c","c","e","r">>, <<"b","a","s","e","b","a","l","l">>, <<"s","p","o","r","t">>}],
       [name |-> <<"m","o","v","i","e","s">>, keywords |-> {<<"m","o","v","i","e">>, <<"f","i","l","m">>, <<"c","i","n","e","m","a">>, <<"w","a","t","c","h">>, <<"s","e","r","i","e","s">>}],
       [name |-> <<"c","o","o","k","i","n","g">>, keywords |-> {<<"c","o","o","k">>, <<"r","e","c","i","p","e">>, <<"f","o","o","d">>, <<"k","i","t","c","h","e","n">>, <<"m","e","a","l">>}],
       [name |-> <<"t","r","a","v","e","l">>, keywords |-> {<<"t","r","a","v","e","l">>, <<"t","r","i","p">>, <<"v","a","c","a","t","i","o","n">>, <<"c","o","u","n","t","r","y">>, <<"v","i","s","i","t">>}] >>

\* f"r/{sub} community"
CommunityLabel(sub) == <<"r","/">> \o sub \o <<" ","c","o","m","m","u","n","i","t","y">>

RECURSIVE KeywordInterests(_, _)
\* Lines 210-212: the title-cased names of the table entries from the i-th on with a keyword in text
KeywordInterests(text, i) ==
    IF i > Len(InterestKeywords) THEN <<>>
    ELSE (IF \E kw \in InterestKeywords[i].keywords : In(kw, text) THEN <<Title(InterestKeywords[i].name)>> ELSE <<>>)
         \o KeywordInterests(text, i + 1)

\* _extract_interests
extract_interests(text, top_subreddits) ==
    LET top == Take(top_subreddits, TopCommunities)
    IN  Take([i \in 1..Len(top) |-> CommunityLabel(top[i].key)] \o KeywordInterests(text, 1), InterestCap)

PositiveWords == {<<"g","o","o","d">>, <<"g","r","e","a","t">>, <<"a","w","e","s","o","m","e">>, <<"l","o","v","e">>, <<"l","i","k","e">>, <<"a","m","a","z","i","n","g">>, <<"e","x","c","e","l","l","e","n","t">>}

NegativeWords == {<<"b","a","d">>, <<"t","e","r","r","i","b","l","e">>, <<"h","a","t","e">>, <<"d","i","s","l","i","k","e">>, <<"a","w","f","u","l">>, <<"h","o","r","r","i","b","l","e">>}

RECURSIVE BodyContent(_)
\* [post.content.lower() for post in posts if post.content]
BodyContent(ps) ==
    IF ps = <<>> THEN <<>>
    ELSE (IF Truthy(ps[1].content) THEN <<Lower(ps[1].content.s)>> ELSE <<>>) \o BodyContent(Tail(ps))

\* sum(1 for word in words if word in all_content)
WordCount(words, text) == Cardinality({w \in words : In(w, text)})

\* The comparison without its factor: a > b
Exceeds(a, b) == a > b

\* Python: a > b * 1.5, for integers a and b
ExceedsByHalf(a, b) == 2 * a > 3 * b

\* _extract_personality_traits
extract_personality_traits(ps) ==
    LET total_posts == Cardinality({i \in 1..Len(ps) : ps[i].post_type = "post"})
        total_comments == Cardinality({i \in 1..Len(ps) : ps[i].post_type = "comment"})
        all_content == Join(<<" ">>, BodyContent(ps))
        positive_count == WordCount(PositiveWords, all_content)
        negative_count == WordCount(NegativeWords, all_content)
    IN  (IF total_comments > total_posts THEN <<"More of a commenter than poster">> ELSE <<>>)
        \o (IF total_posts > total_comments THEN <<"Active content creator">> ELSE <<>>)
        \o (IF ExceedsByHalf(positive_count, negative_count) THEN <<"Generally positive attitude">>
            ELSE IF ExceedsByHalf(negative_count, positive_count) THEN <<"Critical thinker">>
            ELSE <<>>)

\* Line 337: sorted(posts, key=lambda x: x.score, reverse=True)[:5]
TopPosts(ps) == Take(SortedDesc(ps, [i \in 1..Len(ps) |-> ps[i].score]), TopCited)

\* _create_citations: the dict, a set of <<key, value>> pairs
create_citations(ps) ==
    LET top_posts == TopPosts(ps)
        nonempty == SelectSeq(top_posts, LAMBDA post : post.url # <<>>)
    IN  {<<"top_content", [i \in 1..Len(nonempty) |-> nonempty[i].url]>>}

\* _create_empty_persona
create_empty_persona(name) ==
    [username |-> name, interests |-> <<<<"N","o"," ","d","a","t","a"," ","a","v","a","i","l","a","b","l","e">>>>, personality_traits |-> <<"No data available">>, citations |-> {}]

\* analyze_user_persona; of the persona's fields, the ones the properties below read
analyze_user_persona(name, ps) ==
    IF ps = <<>> THEN create_empty_persona(name)
    ELSE [username |-> name,
          interests |-> extract_interests(CombinedText(ps), TopSubredditsOf(SubredditCounts(ps))),
          personality_traits |-> extract_personality_traits(ps),
          citations |-> create_citations(ps)]

\* The persona before analyze_user_persona has run
NoPersona == [username |-> <<>>, interests |-> <<>>, personality_traits |-> <<>>, citations |-> {}]

\* No output file yet
NoFile == [state |-> "absent", persona |-> NoPersona]

\* ------------------------------------------------------------------- actions

\* main, line 437: username = scraper.extract_username(args.profile_url)
ExtractUsername ==
    /\ pc = "extract"
    /\ \/ /\ ~extract_username(profile_url).raises
          /\ username' = extract_username(profile_url).value
          /\ Say("Analyzing user")
          /\ pc' = "scrape"
          /\ UNCHANGED raised
       \/ /\ extract_username(profile_url).raises
          /\ raised' = "ValueError"
          /\ pc' = "except"
          /\ UNCHANGED <<username, stdout>>
    /\ UNCHANGED <<profile_url, limit, content_type, children, consumed, fposts, accepted, status, result, posts, requests, persona, analyzer_calls, file, main_return, exit_status>>

\* scrape_user_content up to its first sub-fetch: posts = [], then _get_user_posts
ScrapeBegin ==
    /\ pc = "scrape"
    /\ posts' = <<>>
    /\ Say("Fetching user posts...")
    /\ content_type' = "post"
    /\ pc' = "fetch"
    /\ UNCHANGED <<profile_url, username, limit, children, consumed, fposts, accepted, status, result, requests, persona, analyzer_calls, file, raised, main_return, exit_status>>

\* _fetch_content from its entry to the loop: the GET, raise_for_status, response.json() and the 'data'/'children' test
FetchRequest ==
    /\ pc = "fetch"
    /\ fposts' = <<>>
    /\ consumed' = 0
    /\ requests' = Append(requests, [user |-> username, endpoint |-> content_type, limit |-> ParamsLimit(SubLimit(limit))])
    /\ \/ /\ \E e \in {"RequestException", "JSONDecodeError", "Exception"} : status' = [status EXCEPT ![content_type] = e]
          /\ Say("Error fetching")
          /\ pc' = "return"
          /\ children' = 0
       \/ /\ status' = [status EXCEPT ![content_type] = "no data"]
          /\ Say("No data found")
          /\ pc' = "return"
          /\ children' = 0
       \/ /\ \E n \in 0..MaxChildren : children' = n
          /\ Say("Found children")
          /\ pc' = "loop"
          /\ UNCHANGED status
    /\ UNCHANGED <<profile_url, username, limit, content_type, accepted, result, posts, persona, analyzer_calls, file, raised, main_return, exit_status>>

\* One pass of `for child in children`, the break and the loop's end included
FetchChild ==
    /\ pc = "loop"
    /\ \/ /\ consumed = children \/ Len(fposts) >= SubLimit(limit)
          /\ status' = [status EXCEPT ![content_type] = "ok"]
          /\ Say("Successfully scraped")
          /\ pc' = "return"
          /\ UNCHANGED <<consumed, fposts, accepted>>
       \/ /\ consumed < children /\ Len(fposts) < SubLimit(limit)
          /\ consumed' = consumed + 1
          /\ \E child \in Children :
               \/ /\ LoopBody(child, content_type) = "raise"
                  /\ status' = [status EXCEPT ![content_type] = "Exception"]
                  /\ Say("Error fetching")
                  /\ pc' = "return"
                  /\ UNCHANGED <<fposts, accepted>>
               \/ /\ LoopBody(child, content_type) = "skip"
                  /\ UNCHANGED <<fposts, accepted, status, stdout, pc>>
               \/ /\ LoopBody(child, content_type) = "append"
                  /\ fposts' = Append(fposts, RedditPost(child.data, content_type))
                  /\ accepted' = [accepted EXCEPT ![content_type] = Append(@, child)]
                  /\ UNCHANGED <<status, stdout, pc>>
    /\ UNCHANGED <<profile_url, username, limit, content_type, children, result, posts, requests, persona, analyzer_calls, file, raised, main_return, exit_status>>

\* `return posts` of _fetch_content and posts.extend(...) of scrape_user_content; after the comments, `return posts`
FetchReturn ==
    /\ pc = "return"
    /\ result' = [result EXCEPT ![content_type] = fposts]
    /\ posts' = posts \o fposts
    /\ \/ /\ content_type = "post"
          /\ Say("Fetching user comments...")
          /\ content_type' = "comment"
          /\ pc' = "fetch"
       \/ /\ content_type = "comment"
          /\ content_type' = "done"
          /\ pc' = "scraped"
          /\ UNCHANGED stdout
    /\ UNCHANGED <<profile_url, username, limit, children, consumed, fposts, accepted, status, requests, persona, analyzer_calls, file, raised, main_return, exit_status>>

\* main without its empty-result test
CheckPostsUnguarded ==
    /\ pc = "scraped"
    /\ Say("Generating persona...")
    /\ pc' = "analyze"
    /\ UNCHANGED <<profile_url, username, limit, content_type, children, consumed, fposts, accepted, status, result, posts, requests, persona, analyzer_calls, file, raised, main_return, exit_status>>

\* main, lines 443-450: the empty-result test
CheckPosts ==
    /\ pc = "scraped"
    /\ \/ /\ posts = <<>>
          /\ Say("Error: No content found - cannot generate persona")
          /\ main_return' = "None"
          /\ pc' = "returned"
       \/ /\ posts # <<>>
          /\ Say("Generating persona...")
          /\ pc' = "analyze"
          /\ UNCHANGED main_return
    /\ UNCHANGED <<profile_url, username, limit, content_type, children, consumed, fposts, accepted, status, result, posts, requests, persona, analyzer_calls, file, raised, exit_status>>

\* main, line 451: persona = analyzer.analyze_user_persona(username, posts)
Analyze ==
    /\ pc = "analyze"
    /\ persona' = analyze_user_persona(username, posts)
    /\ analyzer_calls' = analyzer_calls + 1
    /\ pc' = "save"
    /\ UNCHANGED <<profile_url, username, limit, content_type, children, consumed, fposts, accepted, status, result, posts, requests, stdout, file, raised, main_return, exit_status>>

\* main, lines 454-457: save_persona_to_file; open or a write may raise OSError
Save ==
    /\ pc = "save"
    /\ \/ /\ file' = [state |-> "complete", persona |-> persona]
          /\ Say("Analysis complete!")
          /\ main_return' = "None"
          /\ pc' = "returned"
          /\ UNCHANGED raised
       \/ /\ file' \in {NoFile, [state |-> "partial", persona |-> persona]}
          /\ raised' = "OSError"
          /\ pc' = "except"
          /\ UNCHANGED <<stdout, main_return>>
    /\ UNCHANGED <<profile_url, username, limit, content_type, children, consumed, fposts, accepted, status, result, posts, requests, persona, analyzer_calls, exit_status>>

\* main, lines 459-461: except Exception as e: print(f"Error: {e}"); return 1
Except ==
    /\ pc = "except"
    /\ Say("Error: exception")
    /\ main_return' = "1"
    /\ pc' = "returned"
    /\ UNCHANGED <<profile_url, username, limit, content_type, children, consumed, fposts, accepted, status, result, posts, requests, persona, analyzer_calls, file, raised, exit_status>>

\* Lines 463-464: main() is called as a statement, its return value dropped; the interpreter then exits with status 0
Exit ==
    /\ pc = "returned"
    /\ exit_status' = 0
    /\ pc' = "exited"
    /\ UNCHANGED <<profile_url, username, limit, content_type, children, consumed, fposts, accepted, status, result, posts, requests, stdout, persona, analyzer_calls, file, raised, main_return>>

\* ------------------------------------------------------------ specifications

\* The profile URLs a run is given
Urls ==
    { <<"h","t","t","p","s",":","/","/","r","e","d","d","i","t",".","c","o","m","/","u","s","e","r","/","a","l","i","c","e","/">>,
      <<"h","t","t","p","s",":","/","/","r","e","d","d","i","t",".","c","o","m","/","u","/","b","o","b">>,
      <<"h","t","t","p","s",":","/","/","r","e","d","d","i","t",".","c","o","m","/","a","l","i","c","e">>,
      <<"h","t","t","p","s",":","/","/","w","w","w",".","r","e","d","d","i","t",".","c","o","m","/","u","/","b","o","b","/","/">>,
      <<"h","t","t","p","s",":","/","/","r","e","d","d","i","t",".","c","o","m","/","u","s","e","r","/","a","l","i","c","e","/","c","o","m","m","e","n","t","s","/">>,
      <<"h","t","t","p","s",":","/","/","r","e","d","d","i","t",".","c","o","m","/","u","/","b","o","b","/","?","s","o","r","t","=","n","e","w">>,
      <<"r","e","d","d","i","t",".","c","o","m","/","u","s","e","r","s","/","u">> }

\* The limits scrape_user_content is called with on its own
Limits == {0, 1, 2, 3, 4, 5, DefaultLimit, 60}

\* The items the analyzer is given on its own: distinct items, as distinct permalinks make them
Items ==
    { [title |-> PyStr(<<"I"," ","l","o","v","e"," ","P","Y","T","H","O","N">>), content |-> PyStr(<<>>), subreddit |-> <<"a">>, score |-> 3, created_utc |-> 0, url |-> <<"h","t","t","p","s",":","/","/","r","e","d","d","i","t",".","c","o","m","/","1">>, post_type |-> "post"],
      [title |-> PyStr(<<"H","m">>), content |-> PyStr(<<"G","r","e","a","t"," ","g","a","m","e">>), subreddit |-> <<"b">>, score |-> 9, created_utc |-> 0, url |-> <<"h","t","t","p","s",":","/","/","r","e","d","d","i","t",".","c","o","m","/","2">>, post_type |-> "post"],
      [title |-> PyStr(<<>>), content |-> PyStr(<<"b","a","d"," ","t","e","c","h"," ","s","o","n","g">>), subreddit |-> <<"c">>, score |-> 9, created_utc |-> 0, url |-> <<"h","t","t","p","s",":","/","/","r","e","d","d","i","t",".","c","o","m","/","3">>, post_type |-> "comment"],
      [title |-> PyStr(<<>>), content |-> PyStr(<<"s","p","o","r","t"," ","f","i","l","m">>), subreddit |-> <<"d">>, score |-> 1, created_utc |-> 0, url |-> <<"h","t","t","p","s",":","/","/","r","e","d","d","i","t",".","c","o","m","/","4">>, post_type |-> "comment"],
      [title |-> PyStr(<<>>), content |-> PyStr(<<"I"," ","d","i","s","l","i","k","e"," ","i","t">>), subreddit |-> <<>>, score |-> 7, created_utc |-> 0, url |-> <<"h","t","t","p","s",":","/","/","r","e","d","d","i","t",".","c","o","m","/","5">>, post_type |-> "comment"],
      [title |-> PyStr(<<"E","a","t">>), content |-> PyStr(<<"g","o","o","d"," ","c","o","o","k"," ","t","r","i","p">>), subreddit |-> <<"e">>, score |-> 5, created_utc |-> 0, url |-> <<"h","t","t","p","s",":","/","/","r","e","d","d","i","t",".","c","o","m","/","6">>, post_type |-> "post"],
      [title |-> PyStr(<<>>), content |-> PyStr(<<"h","a","t","e"," ","a","w","f","u","l">>), subreddit |-> <<"a">>, score |-> 3, created_utc |-> 0, url |-> <<"h","t","t","p","s",":","/","/","r","e","d","d","i","t",".","c","o","m","/","7">>, post_type |-> "comment"],
      [title |-> PyStr(<<>>), content |-> PyStr(<<"o","k">>), subreddit |-> <<"f">>, score |-> 12, created_utc |-> 0, url |-> <<"h","t","t","p","s",":","/","/","r","e","d","d","i","t",".","c","o","m","/","8">>, post_type |-> "comment"] }

\* x may follow the items of l in what scrape_user_content returns: a new item, and no post after a comment
CanFollow(l, x) == \A i \in 1..Len(l) : l[i] # x /\ (x.post_type = "post" => l[i].post_type = "post")

RECURSIVE ScrapedLists(_)
\* The lists of at most n items that scrape_user_content can return: distinct posts, then distinct comments
ScrapedLists(n) ==
    IF n = 0 THEN {<<>>}
    ELSE LET shorter == ScrapedLists(n - 1)
         IN  shorter \cup UNION {{Append(l, x) : x \in {y \in Items : CanFollow(l, y)}} : l \in {m \in shorter : Len(m) = n - 1}}

\* The state main starts in, after argparse
Idle ==
    /\ content_type = "none"
    /\ children = 0
    /\ consumed = 0
    /\ fposts = <<>>
    /\ accepted = [post |-> <<>>, comment |-> <<>>]
    /\ status = [post |-> "pending", comment |-> "pending"]
    /\ result = [post |-> <<>>, comment |-> <<>>]
    /\ requests = <<>>
    /\ stdout = <<>>
    /\ persona = NoPersona
    /\ analyzer_calls = 0
    /\ file = NoFile
    /\ raised = "none"
    /\ main_return = "pending"
    /\ exit_status = -1

\* A run of the program: main on a profile URL
Init ==
    /\ pc = "extract"
    /\ profile_url \in Urls
    /\ username = <<>>
    /\ limit = DefaultLimit
    /\ posts = <<>>
    /\ Idle

Next == ExtractUsername \/ ScrapeBegin \/ FetchRequest \/ FetchChild \/ FetchReturn \/ CheckPosts \/ Analyze \/ Save \/ Except \/ Exit

Spec == Init /\ [][Next]_vars

\* scrape_user_content on its own, called with any limit
InitScrape ==
    /\ pc = "scrape"
    /\ profile_url = <<>>
    /\ username = <<"a","l","i","c","e">>
    /\ limit \in Limits
    /\ posts = <<>>
    /\ Idle

NextScrape == ScrapeBegin \/ FetchRequest \/ FetchChild \/ FetchReturn

SpecScrape == InitScrape /\ [][NextScrape]_vars

\* analyze_user_persona on its own, called with any list scrape_user_content can return
InitAnalyze ==
    /\ pc = "analyze"
    /\ profile_url = <<>>
    /\ username = <<"a","l","i","c","e">>
    /\ limit = DefaultLimit
    /\ posts \in ScrapedLists(MaxItems)
    /\ Idle

NextAnalyze == Analyze

SpecAnalyze == InitAnalyze /\ [][NextAnalyze]_vars

\* ------------------------------------------------------------------ properties

Has(seq, x) == \E i \in 1..Len(seq) : seq[i] = x

SubFetches == {"post", "comment"}

\* The sub-fetch for ctype has returned to scrape_user_content
Returned(ctype) == IF ctype = "post" THEN content_type \in {"comment", "done"} ELSE content_type = "done"

\* The exceptions _fetch_content's handlers catch
Caught == {"RequestException", "JSONDecodeError", "Exception"}

\* C1: a sub-fetch in which an exception was raised, at any point, returns zero
\* items, the exception does not reach scrape_user_content's caller, and once the scrape
\* is over both sub-fetches have issued their request.
C1_ErrorYieldsZeroItems ==
    /\ \A ct \in SubFetches : Returned(ct) /\ status[ct] \in Caught => result[ct] = <<>> /\ raised \notin Caught
    /\ content_type = "done" => Len(requests) = 2 /\ requests[1].endpoint = "post" /\ requests[2].endpoint = "comment"

\* A line of main's handler is among the lines printed
ErrorLinePrinted == Has(stdout, "Error: exception")

\* C2: a run in which an exception reached main's handler has printed an error
\* line and exits with a non-zero status.
C2_UncaughtErrorExitsNonZero == pc = "exited" /\ raised # "none" => ErrorLinePrinted /\ exit_status # 0

RECURSIVE UpToSlash(_)
\* The characters of s before its first '/'
UpToSlash(s) == IF s = <<>> \/ s[1] = "/" THEN <<>> ELSE <<s[1]>> \o UpToSlash(Tail(s))

\* The path segment of url that follows the first occurrence of marker
SegmentAfter(url, marker) == UpToSlash(SubSeq(url, Find(marker, url) + Len(marker), Len(url)))

HasMarker(url) == In(<<"/","u","s","e","r","/">>, url) \/ In(<<"/","u","/">>, url)

\* C3: once extract_username has run, the username is the single path segment
\* after the marker when the URL has one, and the invalid-input error was raised when
\* it has none.
C3_UsernameIsSegmentAfterMarker ==
    pc # "extract" =>
        IF HasMarker(profile_url)
        THEN /\ raised # "ValueError"
             /\ username = SegmentAfter(profile_url, IF In(<<"/","u","s","e","r","/">>, profile_url) THEN <<"/","u","s","e","r","/">> ELSE <<"/","u","/">>)
        ELSE raised = "ValueError"

\* C4: the analyzer is called and the file written only after both sub-fetches have
\* returned and with at least one item; a run whose scrape returned no item has, once main
\* returns, printed the error line, never called the analyzer and written no file.
C4_EmptyResultWritesNothing ==
    /\ analyzer_calls > 0 \/ file # NoFile \/ pc \in {"analyze", "save"} =>
           /\ content_type = "done"
           /\ status["post"] # "pending" /\ status["comment"] # "pending"
           /\ posts = result["post"] \o result["comment"]
           /\ Len(posts) > 0
    /\ content_type = "done" /\ posts = <<>> /\ pc \in {"returned", "exited"} =>
           /\ Has(stdout, "Error: No content found - cannot generate persona")
           /\ analyzer_calls = 0
           /\ file = NoFile

\* C4's case: a run whose two sub-fetches returned nothing has ended.
C4_Witness ==
    /\ pc = "exited"
    /\ content_type = "done"
    /\ posts = <<>>
    /\ Len(requests) = 2
    /\ file = NoFile

\* C5: a run given a URL with neither marker issues no request and writes no file, and
\* goes from extract_username straight to main's handler.
C5_MalformedUrlNoRequest ==
    ~HasMarker(profile_url) =>
        /\ requests = <<>>
        /\ file = NoFile
        /\ analyzer_calls = 0
        /\ pc \in {"extract", "except", "returned", "exited"}
        /\ pc # "extract" => raised = "ValueError"

\* C5's case: a run given a URL with neither marker has ended.
C5_Witness == pc = "exited" /\ ~HasMarker(profile_url) /\ raised = "ValueError" /\ requests = <<>>

\* C6: whatever the response carries, a sub-fetch holds and returns at most limit // 2
\* items, so the scrape returns at most limit items, the posts before the comments; and
\* each request asked for min(limit // 2, 25) items.
C6_AtMostHalfLimitEach ==
    /\ Len(fposts) <= limit \div 2
    /\ \A ct \in SubFetches : Len(result[ct]) <= limit \div 2
    /\ Len(posts) <= limit
    /\ \A i, j \in 1..Len(posts) : posts[i].post_type = "comment" /\ posts[j].post_type = "post" => j < i
    /\ \A i \in 1..Len(requests) : requests[i].limit = IF limit \div 2 <= 25 THEN limit \div 2 ELSE 25
    /\ content_type = "done" => posts = result["post"] \o result["comment"]

\* C6's case: a sub-fetch stopped at its limit with children of the response left over.
C6_Witness ==
    /\ pc = "return"
    /\ limit >= 4
    /\ Len(fposts) = limit \div 2
    /\ consumed < children
    /\ status[content_type] = "ok"

\* C7: every item a sub-fetch holds or has returned has a non-empty title or body; a post
\* among them does not have the title '[deleted]' and comes from a child without removal
\* marker; a comment among them has a body that is neither '[deleted]' nor '[removed]'.
C7_ItemsAreLive ==
    /\ \A ps \in {fposts, posts, result["post"], result["comment"]} : \A i \in 1..Len(ps) :
           /\ (~ps[i].title.none /\ ps[i].title.s # <<>>) \/ (~ps[i].content.none /\ ps[i].content.s # <<>>)
           /\ ps[i].post_type = "post" => ps[i].title # PyStr(<<"[","d","e","l","e","t","e","d","]">>)
           /\ ps[i].post_type = "comment" => ps[i].content # PyStr(<<"[","d","e","l","e","t","e","d","]">>) /\ ps[i].content # PyStr(<<"[","r","e","m","o","v","e","d","]">>)
    /\ \A i \in 1..Len(accepted["post"]) :
           LET d == accepted["post"][i].data
           IN  "removed_by_category" \in DOMAIN d => d["removed_by_category"].none \/ d["removed_by_category"].s = <<>>

\* C7's case: the posts sub-fetch went through three children, discarded at least one and
\* kept at least one.
C7_Witness ==
    /\ content_type = "post"
    /\ pc = "return"
    /\ status["post"] = "ok"
    /\ consumed = 3
    /\ Len(fposts) \in {1, 2}

\* analyze_user_persona has returned the persona of a non-empty list
Analyzed == pc = "save" /\ posts # <<>>

\* The place of posts[i] when the items are ordered by score, highest first, equal scores in input order
ScoreRank(i) ==
    1 + Cardinality({j \in 1..Len(posts) : posts[j].score > posts[i].score})
      + Cardinality({j \in 1..(i - 1) : posts[j].score = posts[i].score})

\* C8: the citations of a non-empty list are one category, top_content, holding the URLs
\* of the items ranked 1 to 5 by score (all of them when there are fewer), in rank order,
\* items of equal score in input order.
C8_CitationsAreTopFiveByScore ==
    Analyzed =>
        \E urls \in {c[2] : c \in persona.citations} :
            /\ persona.citations = {<<"top_content", urls>>}
            /\ Len(urls) = IF Len(posts) < 5 THEN Len(posts) ELSE 5
            /\ \A k \in 1..Len(urls) : \E i \in 1..Len(posts) : ScoreRank(i) = k /\ urls[k] = posts[i].url

\* C8's case: more than five items, two of equal score among the cited ones, the first of
\* the two in input order cited first, and an item of higher score after them in the input.
C8_Witness ==
    /\ Analyzed
    /\ Len(posts) > 5
    /\ \E i, j, h \in 1..Len(posts) :
           /\ i < j /\ j < h
           /\ posts[i].score = posts[j].score
           /\ posts[h].score > posts[j].score
           /\ ScoreRank(j) <= 5
           /\ ScoreRank(h) = 1

\* The communities of posts, the number of items of each and the place each is first seen at
Communities == {posts[i].subreddit : i \in 1..Len(posts)} \ {<<>>}

Tally(c) == Cardinality({i \in 1..Len(posts) : posts[i].subreddit = c})

FirstSeen(c) == CHOOSE i \in 1..Len(posts) : posts[i].subreddit = c /\ \A j \in 1..(i - 1) : posts[j].subreddit # c

\* The place of community c in the tally: count descending, ties in first-seen order
TallyRank(c) ==
    1 + Cardinality({d \in Communities : Tally(d) > Tally(c)})
      + Cardinality({d \in Communities : Tally(d) = Tally(c) /\ FirstSeen(d) < FirstSeen(c)})

\* The lower-cased titles and bodies of posts
Pieces == {Lower(posts[i].title.s) : i \in 1..Len(posts)} \cup {Lower(posts[i].content.s) : i \in 1..Len(posts)}

\* The interest categories in table order
CategoryNames == <<<<"P","r","o","g","r","a","m","m","i","n","g">>, <<"G","a","m","i","n","g">>, <<"T","e","c","h","n","o","l","o","g","y">>, <<"M","u","s","i","c">>, <<"S","p","o","r","t","s">>, <<"M","o","v","i","e","s">>, <<"C","o","o","k","i","n","g">>, <<"T","r","a","v","e","l">>>>

\* The i-th category has a keyword in some title or body
Matches(i) == \E kw \in InterestKeywords[i].keywords : \E t \in Pieces : In(kw, t)

\* C9: the interests of a non-empty list are at most 10; they begin with the labels of the
\* communities ranked 1 to 5 in the tally, in rank order; the rest are names of matching
\* categories in table order, leaving out no matching category that precedes one listed,
\* and leaving out none at all when the list is shorter than 10.
C9_InterestsCommunitiesThenCategories ==
    Analyzed =>
        LET ints == persona.interests
            nc == IF Cardinality(Communities) < 5 THEN Cardinality(Communities) ELSE 5
            matching == {i \in 1..8 : Matches(i)}
            listed == {i \in matching : Cardinality({j \in matching : j <= i}) <= Len(ints) - nc}
        IN  /\ Len(ints) <= 10
            /\ Len(ints) >= nc
            /\ \A k \in 1..nc : \E c \in Communities : TallyRank(c) = k /\ ints[k] = <<"r","/">> \o c \o <<" ","c","o","m","m","u","n","i","t","y">>
            /\ Len(ints) = nc + Cardinality(listed)
            /\ \A i \in listed : ints[nc + Cardinality({j \in matching : j <= i})] = CategoryNames[i]
            /\ Len(ints) < 10 => listed = matching

\* C9's case: six communities, one seen twice and ranked first though not seen first, and
\* more matching categories than the cap of 10 leaves room for.
C9_Witness ==
    /\ Analyzed
    /\ Cardinality(Communities) > 5
    /\ \E c \in Communities : Tally(c) = 2 /\ TallyRank(c) = 1 /\ FirstSeen(c) > 1
    /\ Cardinality({i \in 1..8 : Matches(i)}) > 5
    /\ Len(persona.interests) = 10

\* The words of the list that occur in the lower-cased body of some item
WordsInBodies(words) == {w \in words : \E i \in 1..Len(posts) : In(w, Lower(posts[i].content.s))}

Commenter == Has(persona.personality_traits, "More of a commenter than poster")

Creator == Has(persona.personality_traits, "Active content creator")

Positive == Has(persona.personality_traits, "Generally positive attitude")

Critical == Has(persona.personality_traits, "Critical thinker")

====
